---- MODULE Spec2Model ----
(***************************************************************************)
(* Sardene API: the like ("gaze") handler, the handlers that add, update   *)
(* and delete an idea, the listing of a user's likes and the OAuth login   *)
(* handler, over the three MongoDB collections ideas, likes and users.     *)
(* Every storage call of a handler is one atomic step; the provider        *)
(* (GitHub) calls share no state with the store and are folded into the    *)
(* step of the first storage call.                                         *)
(***************************************************************************)
EXTENDS Integers, Sequences, FiniteSets

\* ------------------------------------------------------------------ bounds
MaxUsers == 2
MaxIdeas == 1
MaxLikeReqs == 2
MaxAuthReqs == 2
\* Longest Authorization header handed to extractAuthHeader on its own.
MaxHeaderLen == 5
\* Like and login requests served in all by the whole service.
MaxServed == 2
MaxServedLogins == 1

\* ------------------------------------------------------- HTTP status codes
StatusOK == 200
StatusCreated == 201
StatusBadRequest == 400
StatusUnauthorized == 401
StatusForbidden == 403
StatusNotFound == 404
StatusConflict == 409
StatusInternalServerError == 500
StatusServiceUnavailable == 503
\* No response written yet.
NoStatus == 0

\* ------------------------------------------------------------ value spaces
UserIDs == 1..MaxUsers
IdeaIDs == 1..MaxIdeas
LikeReqs == 1..MaxLikeReqs
AuthReqs == 1..MaxAuthReqs

\* A path parameter that primitive.ObjectIDFromHex rejects.
NotHex == 0
IdeaParams == IdeaIDs \cup {NotHex}

\* Zero value of GithubUserProfileStructure.UserID (no "id" in the JSON).
NoUserID == 0

\* Header text is a sequence of units: the word "Bearer", a blank, or one
\* of the token characters.  The access token the provider issued to user u
\* is the one-character string TokenChars[u].
TokenChars == <<"a", "b", "c", "d", "e", "f">>
Logins == <<"alice", "bob", "carol", "dave", "erin", "frank">>
Names == {"n1", "n2"}

\* The Authorization headers a client sends with token character t: the
\* documented form, the same with surplus blanks, and malformed ones
\* (no blank after the word, no word, the word last, two tokens).
HeaderForms(t) ==
    { <<"Bearer", " ", t>>, <<"Bearer", " ", " ", t, " ">>, <<"Bearer", t>>,
      <<t>>, <<t, "Bearer">>, <<"Bearer", " ", t, " ", t>> }
Headers ==
    {<<>>, <<"Bearer">>} \cup UNION {HeaderForms(TokenChars[u]) : u \in UserIDs}

\* Every header text of up to MaxHeaderLen units.
HeaderUnits == {"Bearer", " "} \cup {TokenChars[u] : u \in UserIDs}
AllHeaders == UNION {[1..n -> HeaderUnits] : n \in 0..MaxHeaderLen}

\* The name and the description of a request body: a blank, or a text with
\* a blank after it.
Texts == {<<" ">>, <<"p", " ">>}
\* What ShouldBindJSON gives for the request bodies: an error, or the
\* jsonInput of a body that carries counters and a publisher of its own,
\* the publisher being nobody the provider knows.
Bodies ==
    [Name : Texts, Description : Texts, Makers : {2}, Gazers : {1},
     Publisher : {"mallory"}, PublisherID : {9}]
Bindings ==
    {[err |-> TRUE, jsonInput |-> [Name |-> <<>>, Description |-> <<>>,
                                   Makers |-> 0, Gazers |-> 0,
                                   Publisher |-> "", PublisherID |-> 0]]}
    \cup {[err |-> FALSE, jsonInput |-> j] : j \in Bodies}

\* Results of one call to the store, as the driver reports it.
\* "ok": applied, no error.  "error": not applied, error returned.
\* "timeout": the deadline passed after the server applied the write.
ReadOutcomes == {"ok", "error"}
WriteOutcomes == {"ok", "error", "timeout"}
\* Results of one HTTP round trip to the provider.
ProviderOutcomes == {"ok", "transport", "malformed"}

Applied(outcome) == outcome # "error"
Failed(outcome) == outcome # "ok"

\* ------------------------------------------------------------------- state
\* ideasCollection: _id -> document, for the ideas that exist.
\* likesCollection: like document -> number of copies stored (the code
\*   creates no unique index).
\* usersCollections: the users documents in insertion order.
\* likeReq, authReq: per request, the handler's position, its locals, the
\*   status it answered and, as history, whether extractAuthHeader rejected
\*   its header, how the round trip to the token endpoint ended, how many
\*   provider and storage calls it made and whether its last storage call
\*   returned an error.
\* storageFailed: history, some storage call of a handler returned an error.
\* reply: the latest request served by a handler that makes one storage
\*   call (add idea, update idea, the two listings): its inputs, the calls
\*   it made, whether the storage call failed, and what it answered.
\* parsed: a header handed to extractAuthHeader and, once the function was
\*   applied, what it returned.
VARIABLES ideasCollection, likesCollection, usersCollections,
          likeReq, authReq, storageFailed, reply, parsed

storeVars == <<ideasCollection, likesCollection, usersCollections>>
vars == <<ideasCollection, likesCollection, usersCollections,
          likeReq, authReq, storageFailed, reply, parsed>>

LikeDocs == [userID : UserIDs, ideaID : IdeaIDs]

\* ---------------------------------------------------------- string helpers
\* strings.Contains(s, "Bearer") / strings.Contains(s, " ")
Contains(s, unit) == \E k \in DOMAIN s : s[k] = unit

\* strings.TrimPrefix(s, "Bearer")
TrimPrefix(s, unit) == IF Len(s) > 0 /\ s[1] = unit THEN Tail(s) ELSE s

RECURSIVE TrimLeft(_)
TrimLeft(s) == IF Len(s) > 0 /\ s[1] = " " THEN TrimLeft(Tail(s)) ELSE s

RECURSIVE TrimRight(_)
TrimRight(s) ==
    IF Len(s) > 0 /\ s[Len(s)] = " "
    THEN TrimRight(SubSeq(s, 1, Len(s) - 1))
    ELSE s

\* strings.TrimSpace
TrimSpace(s) == TrimRight(TrimLeft(s))

\* --------------------------------------------------------------- identity
emptyGithubProfile == [UserID |-> NoUserID, Login |-> "", Name |-> ""]

extractAuthHeader(authHeader) ==
    IF Len(authHeader) = 0
    THEN [token |-> <<>>, err |-> TRUE]
    ELSE IF ~Contains(authHeader, "Bearer")
    THEN [token |-> <<>>, err |-> TRUE]
    ELSE LET trimmedAuthFromHeader == TrimSpace(TrimPrefix(authHeader, "Bearer"))
         IN  IF Contains(trimmedAuthFromHeader, " ")
             THEN [token |-> <<>>, err |-> TRUE]
             ELSE [token |-> trimmedAuthFromHeader, err |-> FALSE]

\* What the provider's profile endpoint answers for an access token: the
\* profile of the user the token was issued to (with the display name the
\* user has at that moment), or an error document without id and login.
ProviderProfile(accessToken, name) ==
    IF \E u \in UserIDs : accessToken = <<TokenChars[u]>>
    THEN LET u == CHOOSE u \in UserIDs : accessToken = <<TokenChars[u]>>
         IN  [UserID |-> u, Login |-> Logins[u], Name |-> name]
    ELSE emptyGithubProfile

\* getUserGithubProfile without its login check.
InvalidUserUnchecked(githubProfile) == FALSE

\* The login check that ends getUserGithubProfile.
InvalidUser(githubProfile) == githubProfile.Login = ""

getUserGithubProfile(accessToken, outcome, name) ==
    IF outcome # "ok"
    THEN [profile |-> emptyGithubProfile, err |-> TRUE]
    ELSE LET githubProfile == ProviderProfile(accessToken, name)
         IN  [profile |-> githubProfile, err |-> InvalidUser(githubProfile)]

\* The profile request issued whatever extractAuthHeader returned.
ProfileRequestedAlways(extracted) == TRUE

\* validateAndGetUser reaches its call of getUserGithubProfile only past the
\* return on the header error.
ProfileRequested(extracted) == ~extracted.err

\* The result of validateAndGetUser, with two facts of its run: malformed,
\* extractAuthHeader returned an error; called, the profile endpoint of the
\* provider was requested.
validateAndGetUser(authHeader, outcome, name) ==
    LET extracted == extractAuthHeader(authHeader)
        called == ProfileRequested(extracted)
        got == getUserGithubProfile(extracted.token, outcome, name)
    IN  IF extracted.err
        THEN [profile |-> emptyGithubProfile, err |-> TRUE,
              malformed |-> TRUE, called |-> called]
        ELSE IF got.err
        THEN [profile |-> emptyGithubProfile, err |-> TRUE,
              malformed |-> FALSE, called |-> called]
        ELSE [profile |-> got.profile, err |-> FALSE,
              malformed |-> FALSE, called |-> called]

\* ------------------------------------------------------------------ store
\* The duplicate lookup with the user left out of the filter.
userlikedFilterByIdea(doc, userID, ideaID) == doc.ideaID = ideaID

\* userlikedFilter := bson.M{"userID": user.UserID, "ideaID": hexIdeaID}
userlikedFilter(doc, userID, ideaID) ==
    doc.userID = userID /\ doc.ideaID = ideaID

\* Number of documents of the likes collection the filter selects.
RECURSIVE SumLikes(_, _, _)
SumLikes(docs, userID, ideaID) ==
    IF docs = {} THEN 0
    ELSE LET d == CHOOSE d \in docs : TRUE
         IN  (IF userlikedFilter(d, userID, ideaID) THEN likesCollection[d] ELSE 0)
             + SumLikes(docs \ {d}, userID, ideaID)

LikesOf(userID, ideaID) == SumLikes(LikeDocs, userID, ideaID)

RECURSIVE SumOverUsers(_, _)
SumOverUsers(users, ideaID) ==
    IF users = {} THEN 0
    ELSE LET u == CHOOSE u \in users : TRUE
         IN  likesCollection[[userID |-> u, ideaID |-> ideaID]]
             + SumOverUsers(users \ {u}, ideaID)

\* Number of like records whose ideaID is the idea.
LikesOfIdea(ideaID) == SumOverUsers(UserIDs, ideaID)

IdeaExists(ideaID) == ideaID \in DOMAIN ideasCollection

\* updateGazeOfIdea := bson.M{"$inc": bson.M{"gazers": 1}}
updateGazeOfIdea(idea) == [idea EXCEPT !.gazers = @ + 1]

\* UpdateOne(filter _id, update): changes the matching document if there is
\* one; matching nothing is not an error.
UpdateOneIdea(ideas, ideaID) ==
    IF ideaID \in DOMAIN ideas
    THEN [ideas EXCEPT ![ideaID] = updateGazeOfIdea(@)]
    ELSE ideas

\* InsertOne into likes: the collection has no unique index, so every
\* insert adds a document.
InsertOneLike(likes, userID, ideaID) ==
    [likes EXCEPT ![[userID |-> userID, ideaID |-> ideaID]] = @ + 1]

\* DeleteOne(filter _id)
DeleteOneIdea(ideas, ideaID) ==
    [i \in DOMAIN ideas \ {ideaID} |-> ideas[i]]

\* userFilter := bson.M{"userID": githubUser.UserID}
userFilter(doc, userID) == doc.userID = userID

\* doesUserExistsInDB cleared by every lookup.
UserNeverFound(users, userID) == FALSE

\* doesUserExistsInDB after the lookup: a document matched the filter.
UserFound(users, userID) ==
    \E k \in DOMAIN users : userFilter(users[k], userID)

\* ---------------------------------------------------------------- requests
idleLikeReq == [pc |-> "idle", userID |-> NoUserID, ideaID |-> NotHex,
                status |-> NoStatus, writes |-> 0, malformed |-> FALSE,
                provider |-> 0,
                storage |-> 0, failed |-> FALSE]
idleAuthReq == [pc |-> "idle", who |-> NoUserID, profile |-> emptyGithubProfile,
                status |-> NoStatus, writes |-> 0, tokenOutcome |-> "none",
                storage |-> 0,
                failed |-> FALSE]

\* ginContext.JSON(code, ...): one more response written; the status of
\* the request is the one written first.
ginJSON(req, code) ==
    [req EXCEPT !.status = IF req.writes = 0 THEN code ELSE @,
                !.writes = @ + 1]

\* The response of a handler that returns after it.
Respond(req, code) == [ginJSON(req, code) EXCEPT !.pc = "done"]

\* No request served yet by the one-call handlers.
noReply == [op |-> "none", ideaID |-> NotHex, userID |-> NoUserID,
            malformed |-> FALSE, provider |-> 0, storage |-> 0,
            failed |-> FALSE, blank |-> FALSE, status |-> NoStatus,
            writes |-> 0,
            data |-> [d \in LikeDocs |-> 0], count |-> 0]

\* The ideas present at the start were added by addIdea for the first user.
firstIdea ==
    [name |-> <<"p">>, description |-> <<"p">>, publisher |-> Logins[1],
     publisher_id |-> 1, makers |-> 0, gazers |-> 0, created_at |-> 1]

\* A header not yet handed to extractAuthHeader.
unparsed(authHeader) ==
    [authHeader |-> authHeader, applied |-> FALSE, token |-> <<>>, err |-> FALSE]

ServiceInit ==
    /\ ideasCollection = [i \in IdeaIDs |-> firstIdea]
    /\ reply = noReply
    /\ likesCollection = [d \in LikeDocs |-> 0]
    /\ usersCollections = <<>>
    /\ likeReq = [r \in LikeReqs |-> idleLikeReq]
    /\ authReq = [a \in AuthReqs |-> idleAuthReq]
    /\ storageFailed = FALSE

Init == ServiceInit /\ parsed = unparsed(<<>>)

\* ------------------------------------------------------- extractAuthHeader
\* The function on its own, applied once to any header text.
HeaderInit == ServiceInit /\ parsed \in {unparsed(h) : h \in AllHeaders}

ExtractAuthHeader ==
    /\ ~parsed.applied
    /\ parsed' = LET extracted == extractAuthHeader(parsed.authHeader)
                 IN  [parsed EXCEPT !.applied = TRUE,
                                    !.token = extracted.token,
                                    !.err = extracted.err]
    /\ UNCHANGED <<storeVars, likeReq, authReq, storageFailed, reply>>

HeaderSpec == HeaderInit /\ [][ExtractAuthHeader]_vars

\* ------------------------------------------------- PATCH /idea/gaze/:ideaID
\* Requests are numbered in their order of arrival.
NextToArrive(reqs, r) ==
    reqs[r].pc = "idle" /\ \A q \in 1..(r - 1) : reqs[q].pc # "idle"

\* The id check with the path parameter taken as a valid id.
InvalidIDUnchecked(ideaID) == FALSE

\* errInValidatingID != nil after primitive.ObjectIDFromHex(ideaID)
InvalidID(ideaID) == ideaID = NotHex

\* The identity check with errInValidatingUser ignored.
UnauthorizedUnchecked(validated) == FALSE

\* errInValidatingUser != nil after validateAndGetUser
Unauthorized(validated) == validated.err

\* Number of requests to the provider that validateAndGetUser made.
ProviderCalls(validated) == IF validated.called THEN 1 ELSE 0

\* likeAnIdea up to its first storage call: the id check and the identity
\* lookup, whose result is validated.
LikeStart(r, ideaID, validated) ==
    /\ NextToArrive(likeReq, r)
    /\ likeReq' =
         IF InvalidID(ideaID)
         THEN [likeReq EXCEPT ![r] = Respond(@, StatusBadRequest)]
         ELSE LET arrived == [likeReq[r] EXCEPT
                                !.ideaID = ideaID,
                                !.malformed = validated.malformed,
                                !.provider = ProviderCalls(validated)]
              IN  IF Unauthorized(validated)
                  THEN [likeReq EXCEPT ![r] = Respond(arrived, StatusUnauthorized)]
                  ELSE [likeReq EXCEPT ![r] =
                          [arrived EXCEPT !.pc = "findIdea",
                                          !.userID = validated.profile.UserID]]
    /\ UNCHANGED <<storeVars, authReq, storageFailed, reply, parsed>>

\* The lookup of the idea failing only when the call fails.
errInFindingIdeaOfCall(outcome, ideaID) == Failed(outcome)

\* errInFindingIdea != nil: the call failed, or Decode reported that no
\* document matched.
errInFindingIdea(outcome, ideaID) == Failed(outcome) \/ ~IdeaExists(ideaID)

\* ideasCollection.FindOne and the decode of its result.
LikeFindIdea(r, outcome) ==
    /\ likeReq[r].pc = "findIdea"
    /\ likeReq' =
         LET called == [likeReq[r] EXCEPT !.storage = @ + 1,
                                          !.failed = Failed(outcome)]
         IN  IF errInFindingIdea(outcome, likeReq[r].ideaID)
             THEN [likeReq EXCEPT ![r] = Respond(called, StatusNotFound)]
             ELSE [likeReq EXCEPT ![r] = [called EXCEPT !.pc = "findLike"]]
    /\ storageFailed' = (storageFailed \/ Failed(outcome))
    /\ UNCHANGED <<storeVars, authReq, reply, parsed>>

\* The flag started false and never set.
didUserLikedIdeaBeforeUnset(outcome, userID, ideaID) == FALSE

\* didUserLikedIdeaBefore starts true and is cleared only by the "no
\* documents" error of the decode.
didUserLikedIdeaBefore(outcome, userID, ideaID) ==
    ~(outcome = "ok" /\ LikesOf(userID, ideaID) = 0)

\* likesCollection.FindOne and the duplicate check.
LikeFindLike(r, outcome) ==
    /\ likeReq[r].pc = "findLike"
    /\ likeReq' =
         LET called == [likeReq[r] EXCEPT !.storage = @ + 1,
                                          !.failed = Failed(outcome)]
         IN  IF didUserLikedIdeaBefore(outcome, likeReq[r].userID,
                                       likeReq[r].ideaID)
             THEN [likeReq EXCEPT ![r] = Respond(called, StatusConflict)]
             ELSE [likeReq EXCEPT ![r] = [called EXCEPT !.pc = "updateGazers"]]
    /\ storageFailed' = (storageFailed \/ Failed(outcome))
    /\ UNCHANGED <<storeVars, authReq, reply, parsed>>

\* ideasCollection.UpdateOne with $inc gazers.
LikeUpdateGazers(r, outcome) ==
    /\ likeReq[r].pc = "updateGazers"
    /\ ideasCollection' =
         IF Applied(outcome)
         THEN UpdateOneIdea(ideasCollection, likeReq[r].ideaID)
         ELSE ideasCollection
    /\ likeReq' =
         LET called == [likeReq[r] EXCEPT !.storage = @ + 1,
                                          !.failed = Failed(outcome)]
         IN  IF Failed(outcome)
             THEN [likeReq EXCEPT ![r] = Respond(called, StatusNotFound)]
             ELSE [likeReq EXCEPT ![r] = [called EXCEPT !.pc = "insertLike"]]
    /\ storageFailed' = (storageFailed \/ Failed(outcome))
    /\ UNCHANGED <<likesCollection, usersCollections, authReq, reply, parsed>>

\* likesCollection.InsertOne and the final response.
LikeInsertLike(r, outcome) ==
    /\ likeReq[r].pc = "insertLike"
    /\ likesCollection' =
         IF Applied(outcome)
         THEN InsertOneLike(likesCollection, likeReq[r].userID, likeReq[r].ideaID)
         ELSE likesCollection
    /\ likeReq' =
         LET called == [likeReq[r] EXCEPT !.storage = @ + 1,
                                          !.failed = Failed(outcome)]
         IN  IF Failed(outcome)
             THEN [likeReq EXCEPT ![r] =
                     Respond(called, StatusInternalServerError)]
             ELSE [likeReq EXCEPT ![r] = Respond(called, StatusOK)]
    /\ storageFailed' = (storageFailed \/ Failed(outcome))
    /\ UNCHANGED <<ideasCollection, usersCollections, authReq, reply, parsed>>

\* ---------------------------------------------- DELETE /idea/delete/:ideaID
\* One storage call, so the handler is one step.  Only a call that removes
\* a document changes the state.
\* A deletion that takes the like records of the idea with it.
DeleteIdeaAndLikes(ideaID, outcome) ==
    /\ ideaID # NotHex
    /\ IdeaExists(ideaID)
    /\ Applied(outcome)
    /\ ideasCollection' = DeleteOneIdea(ideasCollection, ideaID)
    /\ likesCollection' =
          [d \in DOMAIN likesCollection |->
              IF d.ideaID = ideaID THEN 0 ELSE likesCollection[d]]
    /\ UNCHANGED <<usersCollections, likeReq, authReq, storageFailed, reply,
                   parsed>>

DeleteIdea(ideaID, outcome) ==
    /\ ideaID # NotHex
    /\ IdeaExists(ideaID)
    /\ Applied(outcome)
    /\ ideasCollection' = DeleteOneIdea(ideasCollection, ideaID)
    /\ UNCHANGED <<likesCollection, usersCollections, likeReq, authReq,
                   storageFailed, reply, parsed>>

\* ------------------------------------------------------------ POST /idea/add
\* An id that InsertOne may generate: one that no document, no like record
\* and no request holds.
FreshID(ideaID) ==
    /\ ideaID \in IdeaIDs \ DOMAIN ideasCollection
    /\ \A d \in LikeDocs : d.ideaID = ideaID => likesCollection[d] = 0
    /\ \A r \in LikeReqs : likeReq[r].ideaID # ideaID
    /\ reply.ideaID # ideaID

\* The document built from the body as it was bound.
ideaToAddAsBound(jsonInput, user) ==
    [name |-> TrimSpace(jsonInput.Name),
     description |-> TrimSpace(jsonInput.Description),
     publisher |-> jsonInput.Publisher, publisher_id |-> jsonInput.PublisherID,
     makers |-> jsonInput.Makers, gazers |-> jsonInput.Gazers,
     created_at |-> 1]

\* ideaToAdd := bson.M{...} after the defaulting of the counters and the
\* publisher taken from user.
ideaToAdd(jsonInput, user) ==
    [name |-> TrimSpace(jsonInput.Name),
     description |-> TrimSpace(jsonInput.Description),
     publisher |-> user.Login, publisher_id |-> user.UserID,
     makers |-> 0, gazers |-> 0, created_at |-> 1]

\* InsertOne into ideas under the generated id.
InsertOneIdea(ideas, ideaID, idea) ==
    [i \in DOMAIN ideas \cup {ideaID} |-> IF i = ideaID THEN idea ELSE ideas[i]]

\* What a one-call handler records of the identity lookup it ran.
Validated(op, validated) ==
    [noReply EXCEPT !.op = op, !.malformed = validated.malformed,
                    !.provider = ProviderCalls(validated),
                    !.userID = validated.profile.UserID]

\* addIdea.  The body is read past the identity check and the store is
\* called past the checks of the body.  The collection holds at most
\* MaxIdeas documents: the insert is taken only while an id is free.
AddIdea(validated) ==
    LET req == Validated("addIdea", validated)
    IN  IF Unauthorized(validated)
        THEN /\ reply' = ginJSON(req, StatusUnauthorized)
             /\ UNCHANGED <<storeVars, likeReq, authReq, storageFailed, parsed>>
        ELSE \E bound \in Bindings :
               LET jsonInput == bound.jsonInput
               IN  IF \/ bound.err
                      \/ Len(TrimSpace(jsonInput.Name)) = 0
                      \/ Len(TrimSpace(jsonInput.Description)) = 0
                   THEN /\ reply' = ginJSON(req, StatusBadRequest)
                        /\ UNCHANGED <<storeVars, likeReq, authReq,
                                       storageFailed, parsed>>
                   ELSE \E newID \in IdeaIDs, outcome \in WriteOutcomes :
                          /\ FreshID(newID)
                          /\ ideasCollection' =
                                IF Applied(outcome)
                                THEN InsertOneIdea(ideasCollection, newID,
                                       ideaToAdd(jsonInput, validated.profile))
                                ELSE ideasCollection
                          /\ reply' =
                                IF Failed(outcome)
                                THEN ginJSON([req EXCEPT !.storage = 1, !.failed = TRUE],
                                             StatusInternalServerError)
                                ELSE ginJSON([req EXCEPT !.storage = 1, !.ideaID = newID],
                                             StatusCreated)
                          /\ storageFailed' = (storageFailed \/ Failed(outcome))
                          /\ UNCHANGED <<likesCollection, usersCollections,
                                         likeReq, authReq, parsed>>

\* --------------------------------------------- PUT /idea/update/:ideaID  
\* An update that stores the whole body, counters included.
updateIdeaWhole(idea, jsonInput) ==
    [idea EXCEPT !.name = jsonInput.Name,
                 !.description = jsonInput.Description,
                 !.makers = jsonInput.Makers, !.gazers = jsonInput.Gazers]

\* updateIdea := bson.M{"$set": ...}: the description alone, the name
\* alone, or both, as the body carries them.
updateIdea(idea, jsonInput) ==
    LET lengthOfName == Len(TrimSpace(jsonInput.Name))
        lengthOfDescription == Len(TrimSpace(jsonInput.Description))
    IN  IF lengthOfName = 0 /\ lengthOfDescription # 0
        THEN [idea EXCEPT !.description = jsonInput.Description]
        ELSE IF lengthOfName # 0 /\ lengthOfDescription = 0
        THEN [idea EXCEPT !.name = jsonInput.Name]
        ELSE [idea EXCEPT !.name = jsonInput.Name,
                          !.description = jsonInput.Description]

\* The check of the two lengths left out.
nothingToUpdateUnchecked(jsonInput) == FALSE

\* lengthOfName == 0 && lengthOfDescription == 0
nothingToUpdate(jsonInput) ==
    /\ Len(TrimSpace(jsonInput.Name)) = 0
    /\ Len(TrimSpace(jsonInput.Description)) = 0

\* Both texts of a body that was bound are blank.
BothBlank(bound) ==
    /\ ~bound.err
    /\ \A c \in 1..Len(bound.jsonInput.Name) : bound.jsonInput.Name[c] = " "
    /\ \A c \in 1..Len(bound.jsonInput.Description) :
          bound.jsonInput.Description[c] = " "

\* updateIdea.  UpdateOne matching no document is no error.
UpdateIdea(ideaID) ==
    LET req == [noReply EXCEPT !.op = "updateIdea", !.ideaID = ideaID]
    IN  IF InvalidID(ideaID)
        THEN /\ reply' = ginJSON(req, StatusBadRequest)
             /\ UNCHANGED <<storeVars, likeReq, authReq, storageFailed, parsed>>
        ELSE \E bound \in Bindings :
               LET jsonInput == bound.jsonInput
                   sent == [req EXCEPT !.blank = BothBlank(bound)]
               IN  IF bound.err \/ nothingToUpdate(jsonInput)
                   THEN /\ reply' = ginJSON(sent, StatusBadRequest)
                        /\ UNCHANGED <<storeVars, likeReq, authReq,
                                       storageFailed, parsed>>
                   ELSE \E outcome \in WriteOutcomes :
                          /\ ideasCollection' =
                                IF Applied(outcome) /\ IdeaExists(ideaID)
                                THEN [ideasCollection EXCEPT
                                        ![ideaID] = updateIdea(@, jsonInput)]
                                ELSE ideasCollection
                          /\ reply' =
                                IF Failed(outcome)
                                THEN ginJSON([sent EXCEPT !.storage = 1, !.failed = TRUE],
                                             StatusNotFound)
                                ELSE ginJSON([sent EXCEPT !.storage = 1],
                                             StatusOK)
                          /\ storageFailed' = (storageFailed \/ Failed(outcome))
                          /\ UNCHANGED <<likesCollection, usersCollections,
                                         likeReq, authReq, parsed>>

\* ------------------------------------------------------- GET /ideas/gazed
\* Results of likesCollection.Find and of the walk over its cursor.
\* "error": Find returned an error and no cursor.  "cursor": the cursor
\* reported an error, a document did not decode, or Close failed.
FindOutcomes == {"ok", "error", "cursor"}

\* findingAllUserLikedIdeas := bson.M{"userID": user.UserID}
findingAllUserLikedIdeas(doc, userID) == doc.userID = userID

\* The like records the cursor yields, by number of copies.
userLikedIdeas(userID) ==
    [d \in LikeDocs |->
        IF findingAllUserLikedIdeas(d, userID) THEN likesCollection[d] ELSE 0]

RECURSIVE SumData(_, _)
SumData(data, docs) ==
    IF docs = {} THEN 0
    ELSE LET d == CHOOSE d \in docs : TRUE
         IN  data[d] + SumData(data, docs \ {d})

\* len(userLikedIdeas)
totalNumberOfIdeas(data) == SumData(data, LikeDocs)

\* getUserLikedIdeas.  When Find returns an error the handler calls Close
\* on the nil cursor it got; the panic is caught by the router's recovery
\* middleware, which answers 500.
GetUserLikedIdeas(validated) ==
    LET req == Validated("getUserLikedIdeas", validated)
        found == userLikedIdeas(validated.profile.UserID)
    IN  /\ IF Unauthorized(validated)
           THEN /\ reply' = ginJSON(req, StatusUnauthorized)
                /\ UNCHANGED storageFailed
           ELSE \E outcome \in FindOutcomes :
                  /\ reply' =
                        IF outcome = "error"
                        THEN ginJSON([req EXCEPT !.storage = 1, !.failed = TRUE],
                                     StatusInternalServerError)
                        ELSE IF outcome = "cursor"
                        THEN ginJSON([req EXCEPT !.storage = 1, !.failed = TRUE],
                                     StatusServiceUnavailable)
                        ELSE ginJSON([req EXCEPT
                                        !.storage = 1, !.data = found,
                                        !.count = totalNumberOfIdeas(found)],
                                     StatusOK)
                  /\ storageFailed' = (storageFailed \/ Failed(outcome))
        /\ UNCHANGED <<storeVars, likeReq, authReq, parsed>>

\* -------------------------------------------------------------- GET /ideas
\* Results of ideasCollection.Find and of the walk over its cursor.
\* "error": Find returned an error and no cursor.  "decode": a document did
\* not decode.  "iterate": the cursor reported an error after the walk.
\* "close": Close failed.
GetIdeasOutcomes == {"ok", "error", "decode", "iterate", "close"}

\* len(ideas)
lengthOfIdeas(ideas) == Cardinality(DOMAIN ideas)

\* getIdeas.  When Find returns an error the handler calls Close on the nil
\* cursor it got; the panic is caught by the router's recovery middleware,
\* which answers 500.  After an iteration error the handler writes the 500
\* response and, not returning, closes the cursor once more and writes the
\* response of the walk that succeeded.
GetIdeas(outcome) ==
    LET req == [noReply EXCEPT !.op = "getIdeas", !.storage = 1,
                               !.failed = Failed(outcome)]
        listed == [req EXCEPT !.count = lengthOfIdeas(ideasCollection)]
    IN  /\ reply' =
              IF outcome \in {"error", "decode"}
              THEN ginJSON(req, StatusInternalServerError)
              ELSE IF outcome = "iterate"
              THEN ginJSON(ginJSON(listed, StatusInternalServerError), StatusOK)
              ELSE IF outcome = "close"
              THEN ginJSON(req, StatusServiceUnavailable)
              ELSE ginJSON(listed, StatusOK)
        /\ storageFailed' = (storageFailed \/ Failed(outcome))
        /\ UNCHANGED <<storeVars, likeReq, authReq, parsed>>

\* ---------------------------------------------------------------- POST /auth
\* Results of the round trip to the provider's token endpoint.
TokenOutcomes == {"ok", "unreachable", "unreadable", "malformed"}

\* The access_token of the token endpoint's JSON answer: the token of the
\* user the code was issued for, or none for an invalid or expired code
\* (the answer is then an error document without access_token).
AccessTokenFor(who) == IF who \in UserIDs THEN <<TokenChars[who]>> ELSE <<>>

\* The status of the reply to a failed round trip: the arguments of the
\* reply hold errInInput.Error() with errInInput nil, so the handler panics
\* before it writes and the recovery middleware answers.
TokenFailureStatus == StatusInternalServerError

\* authenticateUser up to its first storage call.  On a failed round trip
\* the handler evaluates errInInput.Error() with errInInput nil; the panic
\* is caught by the router's recovery middleware, which answers 500.
authenticateUser(bodyOK, who, tokenOutcome, outcome, name) ==
    IF ~bodyOK
    THEN Respond(idleAuthReq, StatusBadRequest)
    ELSE LET posted == [idleAuthReq EXCEPT !.who = who,
                                           !.tokenOutcome = tokenOutcome]
             got == getUserGithubProfile(AccessTokenFor(who), outcome, name)
         IN  IF tokenOutcome # "ok"
             THEN Respond(posted, TokenFailureStatus)
             ELSE IF got.err
             THEN Respond(posted, StatusForbidden)
             ELSE [posted EXCEPT !.pc = "findUser", !.profile = got.profile]

\* A login request arrives and runs to the point started.
AuthStart(a, started) ==
    /\ NextToArrive(authReq, a)
    /\ authReq' = [authReq EXCEPT ![a] = started]
    /\ UNCHANGED <<storeVars, likeReq, storageFailed, reply, parsed>>

\* Every error of the decode taken as "no documents".
errInDecodingSwallowed(outcome) == FALSE

\* return errInDecoding: the decode error is not "no documents".
errInDecodingReturned(outcome) == Failed(outcome)

\* addUserToDatabase: usersCollections.FindOne and the decode.
AuthFindUser(a, outcome) ==
    /\ authReq[a].pc = "findUser"
    /\ authReq' =
         LET called == [authReq[a] EXCEPT !.storage = @ + 1,
                                          !.failed = Failed(outcome)]
         IN  IF errInDecodingReturned(outcome)
             THEN [authReq EXCEPT ![a] = Respond(called, StatusForbidden)]
             ELSE IF UserFound(usersCollections, authReq[a].profile.UserID)
             THEN [authReq EXCEPT ![a] = Respond(called, StatusOK)]
             ELSE [authReq EXCEPT ![a] = [called EXCEPT !.pc = "insertUser"]]
    /\ storageFailed' = (storageFailed \/ Failed(outcome))
    /\ UNCHANGED <<storeVars, likeReq, reply, parsed>>

userToAdd(githubUser) ==
    [userID |-> githubUser.UserID, login |-> githubUser.Login,
     name |-> githubUser.Name]

\* The error of the insert dropped.
errInAddingUserDropped(outcome) == FALSE

\* errInAddingUser != nil after usersCollections.InsertOne
errInAddingUser(outcome) == Failed(outcome)

\* addUserToDatabase: usersCollections.InsertOne, then the response.
AuthInsertUser(a, outcome) ==
    /\ authReq[a].pc = "insertUser"
    /\ usersCollections' =
         IF Applied(outcome)
         THEN Append(usersCollections, userToAdd(authReq[a].profile))
         ELSE usersCollections
    /\ authReq' =
         LET called == [authReq[a] EXCEPT !.storage = @ + 1,
                                          !.failed = Failed(outcome)]
         IN  IF errInAddingUser(outcome)
             THEN [authReq EXCEPT ![a] = Respond(called, StatusForbidden)]
             ELSE [authReq EXCEPT ![a] = Respond(called, StatusOK)]
    /\ storageFailed' = (storageFailed \/ Failed(outcome))
    /\ UNCHANGED <<ideasCollection, likesCollection, likeReq, reply, parsed>>

\* ----------------------------------------------------------- specifications
LikeQuiescent == \A r \in LikeReqs : likeReq[r].pc \in {"idle", "done"}
AuthQuiescent == \A a \in AuthReqs : authReq[a].pc \in {"idle", "done"}

LikeStep ==
    \/ \E r \in LikeReqs, o \in ReadOutcomes : LikeFindIdea(r, o)
    \/ \E r \in LikeReqs, o \in ReadOutcomes : LikeFindLike(r, o)
    \/ \E r \in LikeReqs, o \in WriteOutcomes : LikeUpdateGazers(r, o)
    \/ \E r \in LikeReqs, o \in WriteOutcomes : LikeInsertLike(r, o)

\* What validateAndGetUser returns over all headers a request may carry and
\* all answers the provider may give.  The handlers that take a bearer read
\* the id and the login of the profile, never the display name, so one name
\* stands for all.
Validations ==
    {validateAndGetUser(h, o, "n1") : h \in Headers, o \in ProviderOutcomes}

LikeArrive ==
    \E r \in LikeReqs, i \in IdeaParams, v \in Validations : LikeStart(r, i, v)

DeleteStep == \E i \in IdeaParams, o \in WriteOutcomes : DeleteIdea(i, o)

AddStep == \E v \in Validations : AddIdea(v)

UpdateStep == \E i \in IdeaParams : UpdateIdea(i)

ListStep == \E v \in Validations : GetUserLikedIdeas(v)

GetStep == \E o \in GetIdeasOutcomes : GetIdeas(o)

AuthStep ==
    \/ \E a \in AuthReqs, o \in ReadOutcomes : AuthFindUser(a, o)
    \/ \E a \in AuthReqs, o \in WriteOutcomes : AuthInsertUser(a, o)

\* Where authenticateUser gets before its first storage call, over all
\* bodies, all answers of the token endpoint and of the profile endpoint.
AuthStarts ==
    {authenticateUser(b, w, t, o, n) :
        b \in BOOLEAN, w \in UserIDs \cup {NoUserID}, t \in TokenOutcomes,
        o \in ProviderOutcomes, n \in Names}

AuthArrive == \E a \in AuthReqs, s \in AuthStarts : AuthStart(a, s)

\* Like and delete requests served concurrently.
LikeNext == LikeArrive \/ LikeStep \/ DeleteStep
LikeSpec == Init /\ [][LikeNext]_vars

\* The same handlers with every in-flight like request run to completion.
FairLikeSpec == LikeSpec /\ WF_vars(LikeStep)

\* Like requests issued one after the other: a request arrives only when
\* no other is in flight.
SeqLikeNext == (LikeQuiescent /\ LikeArrive) \/ LikeStep \/ DeleteStep
SeqLikeSpec == Init /\ [][SeqLikeNext]_vars

\* Like and delete requests served concurrently by a store whose calls all
\* succeed.
OkLikeStep ==
    \/ \E r \in LikeReqs : LikeFindIdea(r, "ok")
    \/ \E r \in LikeReqs : LikeFindLike(r, "ok")
    \/ \E r \in LikeReqs : LikeUpdateGazers(r, "ok")
    \/ \E r \in LikeReqs : LikeInsertLike(r, "ok")
OkLikeNext == LikeArrive \/ OkLikeStep \/ DeleteStep
OkLikeSpec == Init /\ [][OkLikeNext]_vars

\* Login requests served concurrently.
AuthNext == AuthArrive \/ AuthStep
AuthSpec == Init /\ [][AuthNext]_vars

\* Login requests issued one after the other.
SeqAuthNext == (AuthQuiescent /\ AuthArrive) \/ AuthStep
SeqAuthSpec == Init /\ [][SeqAuthNext]_vars

\* The handlers of ideas on their own.
IdeaNext == AddStep \/ UpdateStep \/ DeleteStep \/ ListStep \/ GetStep
IdeaSpec == Init /\ [][IdeaNext]_vars

\* The handlers of ideas and likes served concurrently.
CatalogNext == LikeNext \/ AddStep \/ UpdateStep \/ ListStep \/ GetStep
CatalogSpec == Init /\ [][CatalogNext]_vars

\* The whole service, serving up to MaxServed like and login requests in
\* all, up to MaxServedLogins of them login requests, and any number of
\* the other requests.
ServedLogins == Cardinality({a \in AuthReqs : authReq[a].pc # "idle"})
Served == Cardinality({r \in LikeReqs : likeReq[r].pc # "idle"}) + ServedLogins
ServedLikeArrive == Served < MaxServed /\ LikeArrive
ServedAuthArrive ==
    Served < MaxServed /\ ServedLogins < MaxServedLogins /\ AuthArrive
Next ==
    \/ ServedLikeArrive
    \/ ServedAuthArrive
    \/ LikeStep
    \/ AuthStep
    \/ AddStep
    \/ UpdateStep
    \/ DeleteStep
    \/ ListStep
    \/ GetStep
Spec == Init /\ [][Next]_vars

\* ------------------------------------------------------ reading the state
\* Number of like records for the pair (userID, ideaID).
Ledger(userID, ideaID) == likesCollection[[userID |-> userID, ideaID |-> ideaID]]

Gazers(ideaID) == ideasCollection[ideaID].gazers

\* The like requests that resolved their user and address the idea / pair.
LikeReqsOn(ideaID) ==
    {r \in LikeReqs : likeReq[r].userID # NoUserID /\ likeReq[r].ideaID = ideaID}
LikeReqsOf(userID, ideaID) ==
    {r \in LikeReqsOn(ideaID) : likeReq[r].userID = userID}

Answered(reqs, code) == {r \in reqs : likeReq[r].status = code}
AllDone(reqs) == \A r \in reqs : likeReq[r].pc = "done"

\* Number of users records with the userID.
UserRecords(userID) ==
    Cardinality({k \in DOMAIN usersCollections :
                    usersCollections[k].userID = userID})

\* The login requests that reached addUserToDatabase with the userID.
AuthReqsOf(userID) == {a \in AuthReqs : authReq[a].profile.UserID = userID}

\* ------------------------------------------------------------------ claims

\* C1: in every reachable state, under any interleaving of concurrent like
\* requests, the likes ledger holds at most one record for any
\* (userID, ideaID) pair.
C1_AtMostOneRecordPerPair ==
    \A u \in UserIDs, i \in IdeaIDs : Ledger(u, i) <= 1

\* C2: whenever no like request is mid-flight, the gazers counter of every
\* existing idea equals the number of like records of that idea, storage
\* failures and timeouts included.
C2_GazersEqualsLedgerAtRest ==
    LikeQuiescent =>
        \A i \in IdeaIDs : IdeaExists(i) => Gazers(i) = LikesOfIdea(i)

\* The state part of C3: for a pair whose earlier request r1 was answered
\* 200, the pair has exactly one record, a later request r2 is never at a
\* write, is answered 409 (404 only if the idea is gone or its lookup
\* failed), and at rest gazers counts one per request answered 200.
SecondLikeOf(r1, r2) ==
    /\ r1 < r2
    /\ likeReq[r1].status = StatusOK
    /\ likeReq[r2].userID = likeReq[r1].userID
    /\ likeReq[r2].ideaID = likeReq[r1].ideaID

SecondLikeState ==
    \A r1 \in LikeReqs, r2 \in LikeReqs :
      SecondLikeOf(r1, r2) =>
        LET u == likeReq[r1].userID
            i == likeReq[r1].ideaID
        IN  /\ Ledger(u, i) = 1
            /\ likeReq[r2].pc \notin {"updateGazers", "insertLike"}
            /\ likeReq[r2].pc = "done" =>
                 /\ likeReq[r2].status \in {StatusConflict, StatusNotFound}
                 /\ likeReq[r2].status = StatusNotFound =>
                      (storageFailed \/ ~IdeaExists(i))
            /\ (LikeQuiescent /\ ~storageFailed /\ IdeaExists(i)) =>
                 Gazers(i) = Cardinality(Answered(LikeReqsOn(i), StatusOK))

\* The step part of C3: no step of such a later request changes the ideas
\* or the likes collection.
SecondLikeStep ==
    \/ UNCHANGED <<ideasCollection, likesCollection>>
    \/ \A r1 \in LikeReqs, r2 \in LikeReqs :
         SecondLikeOf(r1, r2) => likeReq'[r2] = likeReq[r2]

\* C3: of two like requests by the same user on the same idea issued one
\* after the other, the first answered 200, the second is answered 409 and
\* leaves the ideas and likes collections unchanged; the pair has exactly
\* one like record and gazers was incremented once for it.
C3_SecondLikeConflicts == []SecondLikeState /\ [][SecondLikeStep]_vars

C3_Witness ==
    \E r1 \in LikeReqs, r2 \in LikeReqs :
        /\ r1 < r2
        /\ likeReq[r1].status = StatusOK
        /\ likeReq[r2].status = StatusConflict
        /\ likeReq[r1].userID = likeReq[r2].userID
        /\ likeReq[r1].ideaID = likeReq[r2].ideaID
        /\ IdeaExists(likeReq[r1].ideaID)
        /\ Gazers(likeReq[r1].ideaID) = 1
        /\ ~storageFailed

\* C4: when one user issues several like requests on one idea
\* concurrently, exactly one is answered 200, every other one 409, and
\* gazers is incremented once in total.
C4_OneWinnerPerPair ==
    (LikeQuiescent /\ ~storageFailed) =>
      \A u \in UserIDs, i \in IdeaIDs :
        (IdeaExists(i) /\ LikeReqsOf(u, i) # {}) =>
          /\ Cardinality(Answered(LikeReqsOf(u, i), StatusOK)) = 1
          /\ \A r \in LikeReqsOf(u, i) :
               likeReq[r].status \in {StatusOK, StatusConflict}
          /\ Gazers(i) = Cardinality({v \in UserIDs : LikeReqsOf(v, i) # {}})

\* C5: when the like requests on an existing idea come from pairwise
\* distinct users and no storage call fails, gazers counts the requests
\* whose increment ran, the ledger those whose insert ran, and once all N
\* are done every one is answered 200 with one record per user, N records
\* and gazers = N.
DistinctUsers(reqs) ==
    \A r1 \in reqs, r2 \in reqs : r1 # r2 => likeReq[r1].userID # likeReq[r2].userID

C5_DistinctUsersAllCounted ==
    \A i \in IdeaIDs :
      (IdeaExists(i) /\ DistinctUsers(LikeReqsOn(i))) =>
        /\ Gazers(i) = Cardinality({r \in LikeReqsOn(i) :
                           likeReq[r].pc = "insertLike" \/ likeReq[r].status = StatusOK})
        /\ LikesOfIdea(i) = Cardinality(Answered(LikeReqsOn(i), StatusOK))
        /\ AllDone(LikeReqsOn(i)) =>
             /\ \A r \in LikeReqsOn(i) :
                  /\ likeReq[r].status = StatusOK
                  /\ Ledger(likeReq[r].userID, i) = 1
             /\ LikesOfIdea(i) = Cardinality(LikeReqsOn(i))
             /\ Gazers(i) = Cardinality(LikeReqsOn(i))

C5_Witness ==
    \E i \in IdeaIDs :
        /\ IdeaExists(i)
        /\ Cardinality(LikeReqsOn(i)) >= 2
        /\ DistinctUsers(LikeReqsOn(i))
        /\ AllDone(LikeReqsOn(i))
        /\ Gazers(i) = Cardinality(LikeReqsOn(i))

\* C6: the counter of an idea is incremented only after the ledger insert
\* of the same action: gazers of an existing idea never exceeds the number
\* of its like records.
C6_GazersNeverAheadOfLedger ==
    \A i \in IdeaIDs : IdeaExists(i) => Gazers(i) <= LikesOfIdea(i)

\* C7: a like action that applied one of its two effects eventually
\* applies the other or undoes the first: an existing idea whose counter
\* and ledger disagree eventually has them agree again.
C7_EffectsEventuallyPaired ==
    \A i \in IdeaIDs :
      (IdeaExists(i) /\ Gazers(i) # LikesOfIdea(i))
         ~> (~IdeaExists(i) \/ Gazers(i) = LikesOfIdea(i))

\* C8: a login request whose code is invalid or expired never reaches
\* addUserToDatabase and is never answered 200, and no users record holds
\* an unresolved identity.
C8_InvalidCodeNeverProvisioned ==
    /\ \A a \in AuthReqs :
         (authReq[a].pc # "idle" /\ authReq[a].who = NoUserID) =>
            /\ authReq[a].pc = "done"
            /\ authReq[a].status # StatusOK
    /\ \A k \in DOMAIN usersCollections :
         /\ usersCollections[k].userID # NoUserID
         /\ usersCollections[k].login # ""

C8_Witness ==
    \E a \in AuthReqs :
        /\ authReq[a].who = NoUserID
        /\ authReq[a].status = StatusForbidden

\* C9: with login requests issued one after the other, a userID never has
\* two users records, a request inserts only while the userID has none,
\* and once the first request of a userID is answered 200 the single
\* record is the one that request wrote, whatever names later requests of
\* that userID carry.
C9_FirstWriteWins ==
    \A u \in UserIDs :
      /\ UserRecords(u) <= 1
      /\ \A a \in AuthReqsOf(u) :
           /\ authReq[a].pc = "insertUser" => UserRecords(u) = 0
           /\ authReq[a].status = StatusOK => UserRecords(u) = 1
           /\ (authReq[a].status = StatusOK /\ \A b \in AuthReqsOf(u) : a <= b) =>
                \E k \in DOMAIN usersCollections :
                    usersCollections[k] = userToAdd(authReq[a].profile)

C9_Witness ==
    \E a \in AuthReqs, b \in AuthReqs :
        /\ a < b
        /\ authReq[a].status = StatusOK
        /\ authReq[b].status = StatusOK
        /\ authReq[a].profile.UserID = authReq[b].profile.UserID
        /\ authReq[a].profile.Name # authReq[b].profile.Name
        /\ usersCollections = <<userToAdd(authReq[a].profile)>>

\* C10: under any interleaving of concurrent login requests that resolve
\* to the same userID, the users collection holds exactly one record for
\* that userID once a request for it was answered 200.
C10_OneUserRecordPerIdentity ==
    \A u \in UserIDs :
      /\ UserRecords(u) <= 1
      /\ (\E a \in AuthReqsOf(u) : authReq[a].status = StatusOK) =>
            UserRecords(u) = 1

\* C11: a like request whose ideaID path parameter is not a valid hex
\* object id is answered 400 and has made no storage call and no provider
\* call.
C11_InvalidIDRejectedFirst ==
    \A r \in LikeReqs :
        (likeReq[r].pc # "idle" /\ likeReq[r].ideaID = NotHex) =>
            /\ likeReq[r].pc = "done"
            /\ likeReq[r].status = StatusBadRequest
            /\ likeReq[r].storage = 0
            /\ likeReq[r].provider = 0

\* A request with an invalid id was answered after another request had gone
\* through its provider call and storage calls.
C11_Witness ==
    \E r \in LikeReqs, q \in LikeReqs :
        /\ likeReq[r].pc = "done"
        /\ likeReq[r].ideaID = NotHex
        /\ likeReq[r].status = StatusBadRequest
        /\ likeReq[q].provider = 1
        /\ likeReq[q].storage > 0

\* The header has the form "Bearer <token>": the word, one or more blanks,
\* one non-empty token without a blank, and nothing after it but blanks.
BearerForm(authHeader, token) ==
    /\ token # <<>>
    /\ ~Contains(token, " ")
    /\ \E n \in 1..Len(authHeader), m \in 0..Len(authHeader) :
          authHeader = <<"Bearer">> \o [k \in 1..n |-> " "] \o token
                         \o [k \in 1..m |-> " "]

\* C12: extractAuthHeader returns a token without error if and only if the
\* header has the form "Bearer <token>" with exactly one non-empty token
\* holding no whitespace, the token returned being that one; for every
\* other header it returns the error.
C12_TokenIffBearerForm ==
    parsed.applied =>
        /\ ~parsed.err <=>
              \E n \in 1..Len(parsed.authHeader), m \in 1..Len(parsed.authHeader) :
                  BearerForm(parsed.authHeader, SubSeq(parsed.authHeader, n, m))
        /\ ~parsed.err => BearerForm(parsed.authHeader, parsed.token)

\* C13: on every endpoint that takes a bearer credential (like, listing of
\* the liked ideas, add idea), a request whose Authorization header
\* extractAuthHeader rejected is answered 401 and made no provider call.
C13_MalformedHeaderNeverReachesProvider ==
    /\ \A r \in LikeReqs :
          likeReq[r].malformed =>
              /\ likeReq[r].pc = "done"
              /\ likeReq[r].status = StatusUnauthorized
              /\ likeReq[r].provider = 0
    /\ reply.malformed =>
          /\ reply.op \in {"addIdea", "getUserLikedIdeas"}
          /\ reply.status = StatusUnauthorized
          /\ reply.provider = 0

\* A like request and an add request were refused for their header, and
\* another like request was refused after its provider call.
C13_Witness ==
    /\ reply.op = "addIdea"
    /\ reply.malformed
    /\ reply.status = StatusUnauthorized
    /\ \E r \in LikeReqs, q \in LikeReqs :
          /\ likeReq[r].malformed
          /\ likeReq[r].status = StatusUnauthorized
          /\ ~likeReq[q].malformed
          /\ likeReq[q].status = StatusUnauthorized
          /\ likeReq[q].provider = 1

\* The like requests with a valid id whose bearer credential resolved to
\* no identity.
Unresolved ==
    {r \in LikeReqs : /\ likeReq[r].pc # "idle"
                      /\ likeReq[r].ideaID # NotHex
                      /\ likeReq[r].userID = NoUserID}

\* C14: a like request whose bearer credential resolves to no identity
\* (malformed header, provider transport or parse failure, profile with an
\* empty login) is answered 401 without a storage call, and the step that
\* answers it leaves the ideas and likes collections unchanged.
C14_UnresolvedBearerRefused ==
    /\ [](\A r \in Unresolved :
            /\ likeReq[r].pc = "done"
            /\ likeReq[r].status = StatusUnauthorized
            /\ likeReq[r].storage = 0)
    /\ [][\/ UNCHANGED <<ideasCollection, likesCollection>>
          \/ \A r \in LikeReqs :
                likeReq'[r].status = StatusUnauthorized =>
                    likeReq[r].status = StatusUnauthorized]_vars

\* A request was refused after its provider call while the idea held a
\* like of an earlier request.
C14_Witness ==
    \E r \in Unresolved, q \in LikeReqs, i \in IdeaIDs :
        /\ likeReq[r].status = StatusUnauthorized
        /\ likeReq[r].provider = 1
        /\ q < r
        /\ likeReq[q].status = StatusOK
        /\ likeReq[q].ideaID = i
        /\ IdeaExists(i)
        /\ Gazers(i) = 1
        /\ Ledger(likeReq[q].userID, i) = 1

\* C15: a like request on a well-formed ideaID for which no idea exists
\* when the request looks it up is answered 404 by that lookup, which
\* changes no like record and no counter, and the request makes no step
\* after its answer.
C15_MissingIdeaNotFound ==
    [][\A r \in LikeReqs :
         /\ likeReq[r].pc = "done" => likeReq'[r] = likeReq[r]
         /\ ( /\ likeReq[r].pc = "findIdea"
              /\ likeReq'[r] # likeReq[r]
              /\ ~IdeaExists(likeReq[r].ideaID) ) =>
                 /\ likeReq'[r].pc = "done"
                 /\ likeReq'[r].status = StatusNotFound
                 /\ likeReq'[r].storage = 1
                 /\ UNCHANGED <<ideasCollection, likesCollection>>]_vars

\* With every storage call so far successful, a request was answered 404
\* by its lookup of a deleted idea that an earlier request had liked.
C15_Witness ==
    \E r \in LikeReqs, q \in LikeReqs :
        /\ likeReq[r].status = StatusNotFound
        /\ likeReq[r].storage = 1
        /\ ~IdeaExists(likeReq[r].ideaID)
        /\ ~storageFailed
        /\ likeReq[q].status = StatusOK
        /\ likeReq[q].ideaID = likeReq[r].ideaID
        /\ Ledger(likeReq[q].userID, likeReq[q].ideaID) = 1

\* C16: a login request whose round trip to the token endpoint failed
\* (endpoint unreachable, body unreadable, malformed JSON) is answered 403
\* and has made no call to the users collection.
C16_TokenFailureForbidden ==
    \A a \in AuthReqs :
        authReq[a].tokenOutcome \in TokenOutcomes \ {"ok"} =>
            /\ authReq[a].pc = "done"
            /\ authReq[a].status = StatusForbidden
            /\ authReq[a].storage = 0

\* C17: whenever a login request is answered 200, it has gone through the
\* lookup of the users collection and a users record with the userID of
\* the identity it returns exists.
C17_OkImpliesUserRecord ==
    \A a \in AuthReqs :
        authReq[a].status = StatusOK =>
            /\ authReq[a].profile.UserID \in UserIDs
            /\ authReq[a].storage >= 1
            /\ UserRecords(authReq[a].profile.UserID) >= 1

\* One request was answered 200 after its insert, a later one for the same
\* user after its lookup found the record.
C17_Witness ==
    \E a \in AuthReqs, b \in AuthReqs :
        /\ authReq[a].status = StatusOK
        /\ authReq[a].storage = 2
        /\ authReq[b].status = StatusOK
        /\ authReq[b].storage = 1
        /\ authReq[a].profile.UserID = authReq[b].profile.UserID
        /\ UserRecords(authReq[a].profile.UserID) = 1

\* C18: the likes ledger is append-only: no step of any handler (like,
\* listings, add, update and delete idea, login) removes or changes a like
\* record, so the number of copies of every like record never decreases.
C18_LedgerAppendOnly ==
    [][\A d \in LikeDocs : likesCollection'[d] >= likesCollection[d]]_vars

\* A like record outlived the deletion of its idea, a login and a listing
\* that returned it.
C18_Witness ==
    \E d \in LikeDocs, a \in AuthReqs :
        /\ likesCollection[d] = 1
        /\ ~IdeaExists(d.ideaID)
        /\ authReq[a].status = StatusOK
        /\ reply.op = "getUserLikedIdeas"
        /\ reply.status = StatusOK
        /\ reply.data[d] = 1

\* The step is the counter update of a like request on the idea.
LikeActsOn(ideaID) ==
    \E r \in LikeReqs :
        /\ likeReq[r].pc = "updateGazers"
        /\ likeReq'[r].pc # "updateGazers"
        /\ likeReq[r].ideaID = ideaID

\* C19: for every idea, in every step that the idea exists before and
\* after, gazers and makers do not decrease, and gazers changes only by
\* exactly +1 and only in the counter update of a like request.
C19_CountersMonotone ==
    [][\A i \in DOMAIN ideasCollection \cap DOMAIN ideasCollection' :
         /\ ideasCollection'[i].makers >= ideasCollection[i].makers
         /\ \/ ideasCollection'[i].gazers = ideasCollection[i].gazers
            \/ /\ ideasCollection'[i].gazers = ideasCollection[i].gazers + 1
               /\ LikeActsOn(i)]_vars

\* An idea liked twice was then updated, with its counter kept.
C19_Witness ==
    \E i \in DOMAIN ideasCollection :
        /\ Gazers(i) = 2
        /\ reply.op = "updateIdea"
        /\ reply.ideaID = i
        /\ reply.status = StatusOK
        /\ ideasCollection[i].name = <<"p", " ">>

\* The step is a request to GET /ideas/gazed being served.
ListingServed == reply' # reply /\ reply'.op = "getUserLikedIdeas"

\* C20: a request to GET /ideas/gazed is answered 401 when its bearer
\* resolves to no identity, 503 when the ledger query fails, and otherwise
\* 200 with exactly the like records whose userID is the resolved user's
\* (none of another user, none missing) and count the number of records
\* returned.
C20_ListingExactOrRefused ==
    [][ListingServed =>
         IF reply'.userID = NoUserID
         THEN reply'.status = StatusUnauthorized
         ELSE IF reply'.failed
         THEN reply'.status = StatusServiceUnavailable
         ELSE /\ reply'.status = StatusOK
              /\ \A d \in LikeDocs :
                    reply'.data[d] =
                        (IF d.userID = reply'.userID
                         THEN likesCollection[d]
                         ELSE 0)
              /\ reply'.count = totalNumberOfIdeas(reply'.data)]_vars

\* C21: a like request one of whose storage calls (idea lookup, duplicate
\* lookup, counter update, ledger insert) returned an error other than "no
\* document found" has ended with a storage-failure answer (503, or the
\* 500 of the insert), not with 404 or 409, and made no call after the
\* failed one.
C21_StorageFailureSurfaced ==
    \A r \in LikeReqs :
        likeReq[r].failed =>
            /\ likeReq[r].pc = "done"
            /\ likeReq[r].storage <= 4
            /\ likeReq[r].status \in
                  {StatusServiceUnavailable, StatusInternalServerError}

\* C22: a like request is answered 409 only if its duplicate lookup
\* succeeded and a like record of its (userID, ideaID) pair is in the
\* ledger (records are never removed, so one that was there at the lookup
\* still is); a failed lookup is never answered 409.
C22_ConflictOnlyOnRecord ==
    \A r \in LikeReqs :
        likeReq[r].status = StatusConflict =>
            /\ ~likeReq[r].failed
            /\ Ledger(likeReq[r].userID, likeReq[r].ideaID) >= 1

\* C23: in addUserToDatabase a lookup that finds no document leads to the
\* insert; a lookup that fails ends the call with an error, without an
\* insert; and the call returns an error (the handler then answers 403)
\* exactly when its lookup or its insert failed at the store.
C23_AbsentBranchInserts ==
    /\ [](\A a \in AuthReqs :
            /\ (authReq[a].storage >= 1 /\ authReq[a].pc = "done") =>
                  (authReq[a].status = StatusForbidden <=> authReq[a].failed)
            /\ authReq[a].failed => authReq[a].pc = "done")
    /\ [][\A a \in AuthReqs :
            (authReq[a].pc = "findUser" /\ authReq'[a] # authReq[a]) =>
                /\ UNCHANGED usersCollections
                /\ IF authReq'[a].failed
                   THEN authReq'[a].status = StatusForbidden
                   ELSE IF UserRecords(authReq[a].profile.UserID) = 0
                   THEN authReq'[a].pc = "insertUser"
                   ELSE authReq'[a].status = StatusOK]_vars

\* One call inserted after a lookup that found nothing; another returned
\* the error of its lookup with no record of its user stored.
C23_Witness ==
    \E a \in AuthReqs, b \in AuthReqs :
        /\ authReq[a].status = StatusOK
        /\ authReq[a].storage = 2
        /\ authReq[b].failed
        /\ authReq[b].storage = 1
        /\ authReq[b].status = StatusForbidden
        /\ UserRecords(authReq[b].profile.UserID) = 0

\* C24: a like request that answers 200 has incremented gazers of its idea
\* by one and inserted a like record of its (userID, ideaID): the step of
\* its counter update that lets it go on raises the counter of a stored
\* idea by one, and the step that answers 200 adds one record of the pair,
\* also when deleteIdea removed the idea after the existence check.
C24_OkLikeCountedAndRecorded ==
    [][\A r \in LikeReqs :
          /\ (likeReq[r].pc = "updateGazers" /\ likeReq'[r].pc = "insertLike") =>
                /\ IdeaExists(likeReq[r].ideaID)
                /\ likeReq[r].ideaID \in DOMAIN ideasCollection'
                /\ ideasCollection'[likeReq[r].ideaID].gazers =
                      Gazers(likeReq[r].ideaID) + 1
          /\ (likeReq[r].pc = "insertLike" /\ likeReq'[r].status = StatusOK) =>
                likesCollection'[[userID |-> likeReq[r].userID,
                                  ideaID |-> likeReq[r].ideaID]] =
                    Ledger(likeReq[r].userID, likeReq[r].ideaID) + 1]_vars

\* C25: every like record names an idea that is stored in the ideas
\* collection, in every reachable state of like and delete requests.
C25_LikesNameStoredIdeas ==
    \A d \in DOMAIN likesCollection :
        likesCollection[d] >= 1 => IdeaExists(d.ideaID)

\* C26: an idea that addIdea inserts has makers = 0 and gazers = 0 whatever
\* counters the body carries, and its publisher and publisher_id are the
\* login and userID of the identity resolved from the bearer, not those of
\* the body; a request with an invalid bearer is answered 401 and inserts
\* no idea.
C26_NewIdeaDefaulted ==
    [][/\ \A i \in DOMAIN ideasCollection' \ DOMAIN ideasCollection :
            /\ reply'.op = "addIdea"
            /\ reply'.userID \in UserIDs
            /\ ideasCollection'[i].makers = 0
            /\ ideasCollection'[i].gazers = 0
            /\ ideasCollection'[i].publisher_id = reply'.userID
            /\ ideasCollection'[i].publisher = Logins[reply'.userID]
       /\ (reply'.op = "addIdea" /\ reply' # reply) =>
            /\ reply'.userID = NoUserID => reply'.status = StatusUnauthorized
            /\ reply'.status = StatusUnauthorized =>
                  UNCHANGED ideasCollection]_vars

\* addIdea answered 201 for a stored idea published by the caller.
C26_Witness ==
    /\ reply.op = "addIdea"
    /\ reply.status = StatusCreated
    /\ IdeaExists(reply.ideaID)
    /\ ideasCollection[reply.ideaID].publisher_id = reply.userID
    /\ ideasCollection[reply.ideaID].makers = 0

\* The step is a request to PUT /idea/update being served, or changes
\* nothing.
UpdateServed ==
    /\ reply'.op = "updateIdea"
    /\ UNCHANGED likeReq
    /\ DOMAIN ideasCollection' = DOMAIN ideasCollection

C28_OneResponsePerRequest ==
    /\ \A r \in LikeReqs :
          likeReq[r].writes = (IF likeReq[r].pc = "done" THEN 1 ELSE 0)
    /\ \A a \in AuthReqs :
          authReq[a].writes = (IF authReq[a].pc = "done" THEN 1 ELSE 0)
    /\ reply.writes = (IF reply.op = "none" THEN 0 ELSE 1)

====
